---- MODULE Spec2Model ----
(***************************************************************************)
(* The shader Pass record of lazurite (material/shader_pass/shader_pass.py) *)
(* as a state machine: two Pass objects, the heap of Variant objects they  *)
(* refer to, two BytesIO buffers, a filesystem, and the calls a client     *)
(* makes on them.  Strings are sequences of character codes, a dict is the *)
(* sequence of its (key, value) items in insertion order, and a Variant is *)
(* an object on the heap that a Pass refers to by its address.             *)
(***************************************************************************)
EXTENDS Integers, Sequences, FiniteSets, TLC

VARIABLES passes, heap, files, disk, calls, pre, start

vars == <<passes, heap, files, disk, calls, pre, start>>

(***************************************************************************)
(* Bounds of the model.                                                    *)
(***************************************************************************)
\* The longest variant list of a Pass in an initial state.
MaxVariants == 2
\* The number of mutating calls a client makes in SpecSem.
MaxCalls == 2

PassIds == {"A", "B"}
FileIds == {"f1", "f2"}

(***************************************************************************)
(* Strings and dicts.                                                      *)
(***************************************************************************)
Keys == {<<97>>, <<98>>}
Values == {<<48>>, <<49>>}

\* Python's str < str: by code point, a proper prefix first.
RECURSIVE StrLess(_, _)
StrLess(s, t) ==
    IF t = <<>> THEN FALSE
    ELSE IF s = <<>> THEN TRUE
    ELSE IF s[1] # t[1] THEN s[1] < t[1]
    ELSE StrLess(Tail(s), Tail(t))

\* repr of a str without quotes in it: 'text'.
Repr(s) == <<39>> \o s \o <<39>>

RECURSIVE StrItems(_)
StrItems(d) ==
    IF d = <<>> THEN <<>>
    ELSE Repr(d[1][1]) \o <<58, 32>> \o Repr(d[1][2])
         \o (IF Len(d) > 1 THEN <<44, 32>> ELSE <<>>) \o StrItems(Tail(d))

\* str(dict): {'k': 'v', 'k2': 'v2'}.
StrDict(d) == <<123>> \o StrItems(d) \o <<125>>

DictKeys(d) == {d[i][1] : i \in 1..Len(d)}

DictItemSet(d) == {d[i] : i \in 1..Len(d)}

\* dict == dict: the same keys with the same values, in any order.
DictEq(d, e) == DictItemSet(d) = DictItemSet(e)

\* d[k] = v: an existing key keeps its place, a new key goes last.
DictSet(d, k, v) ==
    IF k \in DictKeys(d)
    THEN [i \in 1..Len(d) |-> IF d[i][1] = k THEN <<k, v>> ELSE d[i]]
    ELSE Append(d, <<k, v>>)

RECURSIVE DictFromItems(_)
DictFromItems(items) ==
    IF items = <<>> THEN <<>>
    ELSE LET n == Len(items)
         IN DictSet(DictFromItems(SubSeq(items, 1, n - 1)), items[n][1], items[n][2])

\* (k, v) < (k2, v2) on tuples of str.
ItemLess(x, y) == StrLess(x[1], y[1]) \/ (x[1] = y[1] /\ StrLess(x[2], y[2]))

RECURSIVE InsertItem(_, _)
InsertItem(x, s) ==
    IF s = <<>> THEN <<x>>
    ELSE IF ItemLess(x, s[1]) THEN <<x>> \o s
    ELSE <<s[1]>> \o InsertItem(x, Tail(s))

\* sorted(d.items()): a stable sort of the items.
RECURSIVE SortedItems(_)
SortedItems(s) ==
    IF s = <<>> THEN <<>>
    ELSE InsertItem(s[Len(s)], SortedItems(SubSeq(s, 1, Len(s) - 1)))

\* Every dict over Keys and Values, in every insertion order.
AllDicts ==
    {d \in UNION {[1..n -> Keys \X Values] : n \in 0..Cardinality(Keys)} :
        \A i, j \in 1..Len(d) : i # j => d[i][1] # d[j][1]}

(***************************************************************************)
(* The collaborators of Pass: BlendMode, SupportedPlatforms, Variant, util.*)
(***************************************************************************)
\* The members of BlendMode, each with its symbolic name and its numeric code.
Unspecified == "BlendMode.Unspecified"

BlendModes == {"BlendMode.NoneMode", "BlendMode.Replace"}

BlendName(m) == IF m = "BlendMode.NoneMode" THEN "NoneMode" ELSE "Replace"

BlendCode(m) == IF m = "BlendMode.NoneMode" THEN 0 ELSE 1

\* BlendMode[code]: the mode of a numeric code.
BlendModeByCode(c) == CHOOSE m \in BlendModes : BlendCode(m) = c

KnownBlendCode(c) == \E m \in BlendModes : BlendCode(m) = c

\* BlendMode(name): the mode of a symbolic name.
BlendModeByName(n) == CHOOSE m \in BlendModes : BlendName(m) = n

KnownBlendName(n) == \E m \in BlendModes : BlendName(m) = n

PlatformNames == <<"Direct3D", "GLSL">>

PlatformIds == 1..Len(PlatformNames)

\* SupportedPlatforms(bit_string): one character per platform, '1' for supported.
\* SupportedPlatforms() supports every platform.
SupportedPlatforms(bits) ==
    [i \in PlatformIds |-> IF i <= Len(bits) THEN bits[i] = 49 ELSE TRUE]

get_bit_string(sp) == [i \in PlatformIds |-> IF sp[i] THEN 49 ELSE 48]

\* SupportedPlatforms.serialize: platform name -> bool.
sp_serialize(sp) == [n \in {PlatformNames[i] : i \in PlatformIds} |->
                        sp[CHOOSE i \in PlatformIds : PlatformNames[i] = n]]

\* SupportedPlatforms.load: a platform the tree does not name keeps its value.
sp_load(sp, object) ==
    [i \in PlatformIds |->
        IF PlatformNames[i] \in DOMAIN object THEN object[PlatformNames[i]] ELSE sp[i]]

write_ushort(n) == <<n % 256, (n \div 256) % 256>>

write_bool(b) == <<IF b THEN 1 ELSE 0>>

write_string(s) == write_ushort(Len(s)) \o s

\* A read at cursor pos (the number of bytes consumed) returns the value and
\* the new cursor; a read past the end raises, which is cursor -1 from then on.
Raised == -1

read_bytes(data, pos, n) ==
    IF pos < 0 \/ pos + n > Len(data)
    THEN [val |-> <<>>, pos |-> Raised]
    ELSE [val |-> SubSeq(data, pos + 1, pos + n), pos |-> pos + n]

unpack_ushort(r) ==
    IF r.pos < 0 THEN [val |-> 0, pos |-> Raised]
    ELSE [val |-> r.val[1] + 256 * r.val[2], pos |-> r.pos]

read_ushort(data, pos) == unpack_ushort(read_bytes(data, pos, 2))

unpack_bool(r) ==
    IF r.pos < 0 THEN [val |-> FALSE, pos |-> Raised]
    ELSE [val |-> r.val[1] # 0, pos |-> r.pos]

read_bool(data, pos) == unpack_bool(read_bytes(data, pos, 1))

\* The bytes of a string whose length n has been read.
read_counted(data, n) == read_bytes(data, n.pos, n.val)

read_string(data, pos) == read_counted(data, read_ushort(data, pos))

\* count times: key = read_string; d[key] = read_string.
RECURSIVE read_items(_, _, _, _)
put_item(data, count, d, k, v) ==
    IF v.pos < 0 THEN [val |-> d, pos |-> Raised]
    ELSE read_items(data, v.pos, count - 1, DictSet(d, k.val, v.val))

read_item_value(data, count, d, k) ==
    put_item(data, count, d, k, read_string(data, k.pos))

read_items(data, pos, count, d) ==
    IF count = 0 THEN [val |-> d, pos |-> pos]
    ELSE read_item_value(data, count, d, read_string(data, pos))

\* The items of a dict whose count n has been read.
read_counted_items(data, n) == read_items(data, n.pos, n.val, <<>>)

RECURSIVE write_items(_)
write_items(d) ==
    IF d = <<>> THEN <<>>
    ELSE write_string(d[1][1]) \o write_string(d[1][2]) \o write_items(Tail(d))

\* A Variant: its flags, its shaders (each a platform and a blob) and the
\* label it was given; written as its flags count and pairs, then its shaders.
RECURSIVE write_shaders(_)
write_shaders(s) ==
    IF s = <<>> THEN <<>>
    ELSE write_ushort(s[1].platform) \o write_string(s[1].bytes) \o write_shaders(Tail(s))

variant_write(v) ==
    write_ushort(Len(v.flags)) \o write_items(v.flags)
    \o write_ushort(Len(v.shaders)) \o write_shaders(v.shaders)

RECURSIVE read_shaders(_, _, _, _)
put_shader(data, count, s, p, b) ==
    IF b.pos < 0 THEN [val |-> s, pos |-> Raised]
    ELSE read_shaders(data, b.pos, count - 1,
                      Append(s, [platform |-> p.val, bytes |-> b.val]))

read_shader_bytes(data, count, s, p) ==
    put_shader(data, count, s, p, read_string(data, p.pos))

read_shaders(data, pos, count, s) ==
    IF count = 0 THEN [val |-> s, pos |-> pos]
    ELSE read_shader_bytes(data, count, s, read_ushort(data, pos))

read_counted_shaders(data, n) == read_shaders(data, n.pos, n.val, <<>>)

make_variant(f, s) ==
    [val |-> [flags |-> f.val, shaders |-> s.val, label |-> <<>>], pos |-> s.pos]

read_variant_shaders(data, f) ==
    make_variant(f, read_counted_shaders(data, read_ushort(data, f.pos)))

\* Variant.read
variant_read(data, pos) ==
    read_variant_shaders(data, read_counted_items(data, read_ushort(data, pos)))

(***************************************************************************)
(* Pass: construction and the binary codec.                                *)
(***************************************************************************)
\* Pass.__init__
NewPass ==
    [name |-> <<>>, supported_platforms |-> SupportedPlatforms(<<>>),
     fallback_pass |-> <<>>, default_blend_mode |-> Unspecified,
     default_variant |-> <<>>, variants |-> <<>>]

\* [Variant().read(file) for _ in range(count)]
RECURSIVE read_variants(_, _, _, _)
put_variant(data, count, vs, v) ==
    IF v.pos < 0 THEN [val |-> vs, pos |-> Raised]
    ELSE read_variants(data, v.pos, count - 1, Append(vs, v.val))

read_variants(data, pos, count, vs) ==
    IF count = 0 THEN [val |-> vs, pos |-> pos]
    ELSE put_variant(data, count, vs, variant_read(data, pos))

read_counted_variants(data, n) == read_variants(data, n.pos, n.val, <<>>)

\* Pass.read goes field by field over st: the Pass, the heap and the cursor.
\* Once a read has raised (cursor -1), nothing more is assigned.
Raise(st) == [st EXCEPT !.pos = Raised]

assign_name(st, s) ==
    IF s.pos < 0 THEN Raise(st)
    ELSE [st EXCEPT !.self.name = s.val, !.pos = s.pos]

read_name(data, st) == assign_name(st, read_string(data, st.pos))

assign_supported_platforms(st, s) ==
    IF s.pos < 0 THEN Raise(st)
    ELSE [st EXCEPT !.self.supported_platforms = SupportedPlatforms(s.val), !.pos = s.pos]

read_supported_platforms(data, st) ==
    assign_supported_platforms(st, read_string(data, st.pos))

assign_fallback_pass(st, s) ==
    IF s.pos < 0 THEN Raise(st)
    ELSE [st EXCEPT !.self.fallback_pass = s.val, !.pos = s.pos]

read_fallback_pass(data, st) == assign_fallback_pass(st, read_string(data, st.pos))

\* self.default_blend_mode = BlendMode[util.read_ushort(file)]
assign_blend_mode(st, c) ==
    IF c.pos < 0 \/ ~KnownBlendCode(c.val) THEN Raise(st)
    ELSE [st EXCEPT !.self.default_blend_mode = BlendModeByCode(c.val), !.pos = c.pos]

\* if util.read_bool(file): ...   with no else branch
branch_blend_mode(data, st, has) ==
    IF has.pos < 0 THEN Raise(st)
    ELSE IF has.val THEN assign_blend_mode(st, read_ushort(data, has.pos))
    ELSE [st EXCEPT !.pos = has.pos]

read_blend_mode(data, st) == branch_blend_mode(data, st, read_bool(data, st.pos))

\* self.default_variant = {}, then the counted items are put into it.
assign_default_variant(st, dv) ==
    IF st.pos < 0 THEN st
    ELSE [st EXCEPT !.self.default_variant = dv.val, !.pos = dv.pos]

read_default_variant(data, st) ==
    assign_default_variant(st, read_counted_items(data, read_ushort(data, st.pos)))

\* self.variants = [...]: the Variants read are new objects on the heap.
assign_variants(st, vs) ==
    IF vs.pos < 0 THEN Raise(st)
    ELSE [self |-> [st.self EXCEPT !.variants =
                        [i \in 1..Len(vs.val) |-> Len(st.heap) + i]],
          heap |-> st.heap \o vs.val,
          pos |-> vs.pos]

read_variant_list(data, st) ==
    assign_variants(st, read_counted_variants(data, read_ushort(data, st.pos)))

\* Pass.read: the Pass, the heap and the cursor after the call.
read(self, h, data, pos0) ==
    read_variant_list(data,
        read_default_variant(data,
            read_blend_mode(data,
                read_fallback_pass(data,
                    read_supported_platforms(data,
                        read_name(data, [self |-> self, heap |-> h, pos |-> pos0]))))))

RECURSIVE write_variants(_, _)
write_variants(ids, h) ==
    IF ids = <<>> THEN <<>>
    ELSE variant_write(h[ids[1]]) \o write_variants(Tail(ids), h)

\* write_blend_mode without its second test: the code is written even when
\* the flag says there is none.
write_blend_mode_unguarded(self) ==
    write_bool(self.default_blend_mode # Unspecified)
    \o write_ushort(BlendCode(self.default_blend_mode))

\* The blend-mode part of Pass.write: the presence flag, then the code.
write_blend_mode(self) ==
    write_bool(self.default_blend_mode # Unspecified)
    \o (IF self.default_blend_mode # Unspecified
        THEN write_ushort(BlendCode(self.default_blend_mode))
        ELSE <<>>)

\* Pass.write: the bytes it writes at the cursor.
write(self, h) ==
    write_string(self.name)
    \o write_string(get_bit_string(self.supported_platforms))
    \o write_string(self.fallback_pass)
    \o write_blend_mode(self)
    \o write_ushort(Len(self.default_variant)) \o write_items(self.default_variant)
    \o write_ushort(Len(self.variants)) \o write_variants(self.variants, h)

\* BytesIO.write: over the bytes at the cursor, extending the buffer.
file_write(f, bytes) ==
    [data |-> SubSeq(f.data, 1, f.pos) \o bytes
              \o SubSeq(f.data, f.pos + Len(bytes) + 1, Len(f.data)),
     pos |-> f.pos + Len(bytes)]

NewFile == [data |-> <<>>, pos |-> 0]

EmptyTree == [k \in {} |-> k]

\* The directory the client stores into; nothing else is on the disk.
Root == <<114>>

NewDisk == [files |-> EmptyTree, dirs |-> {Root}, log |-> <<>>]

Call(op, self, arg, ret) == [op |-> op, self |-> self, arg |-> arg, ret |-> ret]

\* The call is added to the client's history, with the objects as they were.
Record(c) ==
    /\ calls' = Append(calls, c)
    /\ pre' = [passes |-> passes, heap |-> heap]
    /\ UNCHANGED start

(***************************************************************************)
(* The calls, as actions.                                                  *)
(***************************************************************************)
\* p.write(f)
Write(p, f) ==
    /\ files' = [files EXCEPT ![f] = file_write(files[f], write(passes[p], heap))]
    /\ Record(Call("write", p, f, "ok"))
    /\ UNCHANGED <<passes, heap, disk>>

\* f.seek(0)
Seek(f) ==
    /\ files' = [files EXCEPT ![f].pos = 0]
    /\ Record(Call("seek", f, f, "ok"))
    /\ UNCHANGED <<passes, heap, disk>>

\* What p.read(f) leaves: the Pass, the heap, the cursor, the outcome.
ReadEffect(p, f, r) ==
    /\ passes' = [passes EXCEPT ![p] = r.self]
    /\ heap' = r.heap
    /\ files' = [files EXCEPT ![f].pos = IF r.pos >= 0 THEN r.pos ELSE Len(files[f].data)]
    /\ Record(Call("read", p, f, IF r.pos >= 0 THEN "ok" ELSE "DecodeError"))
    /\ UNCHANGED disk

\* p.read(f)
Read(p, f) == ReadEffect(p, f, read(passes[p], heap, files[f].data, files[f].pos))

(***************************************************************************)
(* Pass: the tree codec.  A tree is a function from its keys.              *)
(***************************************************************************)
\* json null
None == "<None>"

TreeKeys == {"name", "supported_platforms", "fallback_pass", "default_blend_mode",
             "default_variant", "variants"}

\* The tree without the keys outside K.
Restrict(object, K) == [k \in K \cap DOMAIN object |-> object[k]]

\* Shader.get_shader_file_name(i): the variant index, '.', the platform.
get_shader_file_name(i, shader) == <<48 + i, 46, 48 + shader.platform>>

\* Variant.serialize_properties(i): its flags, and its shaders each under the
\* file name it has at index i.
variant_serialize_properties(v, i) ==
    [flags |-> v.flags,
     shaders |-> [j \in 1..Len(v.shaders) |->
                     [file_name |-> get_shader_file_name(i, v.shaders[j]),
                      platform |-> v.shaders[j].platform,
                      bytes |-> v.shaders[j].bytes]]]

\* Variant().load(tree, path): the blobs come with the tree.
variant_load(object, path) ==
    [flags |-> object.flags,
     shaders |-> [j \in 1..Len(object.shaders) |->
                     [platform |-> object.shaders[j].platform,
                      bytes |-> object.shaders[j].bytes]],
     label |-> <<>>]

\* The name of the member, whichever member it is.
serialize_blend_mode_by_name(self) == BlendName(self.default_blend_mode)

\* The text of default_blend_mode in the tree.
serialize_blend_mode(self) ==
    IF self.default_blend_mode # Unspecified
    THEN BlendName(self.default_blend_mode)
    ELSE ""

\* Pass.serialize_properties
serialize_properties(self, h) ==
    [name |-> self.name,
     supported_platforms |-> sp_serialize(self.supported_platforms),
     fallback_pass |-> self.fallback_pass,
     default_blend_mode |-> serialize_blend_mode(self),
     default_variant |-> self.default_variant,
     variants |-> [i \in 1..Len(self.variants) |->
                      variant_serialize_properties(h[self.variants[i]], i - 1)]]

\* os.path.join(a, b), b relative: one '/' between the two.
path_join(a, b) == IF a # <<>> /\ a[Len(a)] = 47 THEN a \o b ELSE a \o <<47>> \o b

\* object.get("name", ""): a tree without a name clears it.
load_name_or_empty(object, st) ==
    [st EXCEPT !.self.name = IF "name" \in DOMAIN object THEN object["name"] ELSE <<>>]

\* Pass.load goes key by key over st: the Pass, the heap, and whether a
\* lookup has raised; nothing is assigned after that.
load_name(object, st) ==
    IF "name" \in DOMAIN object THEN [st EXCEPT !.self.name = object["name"]] ELSE st

load_supported_platforms(object, st) ==
    [st EXCEPT !.self.supported_platforms =
        sp_load(@, IF "supported_platforms" \in DOMAIN object
                   THEN object["supported_platforms"] ELSE EmptyTree)]

load_fallback_pass(object, st) ==
    IF "fallback_pass" \in DOMAIN object
    THEN [st EXCEPT !.self.fallback_pass = object["fallback_pass"]]
    ELSE st

\* self.default_blend_mode = BlendMode(mode) if mode else BlendMode.Unspecified
resolve_blend_mode(mode, st) ==
    IF mode = "" THEN [st EXCEPT !.self.default_blend_mode = Unspecified]
    ELSE IF KnownBlendName(mode)
    THEN [st EXCEPT !.self.default_blend_mode = BlendModeByName(mode)]
    ELSE [st EXCEPT !.raised = TRUE]

load_blend_mode(object, st) ==
    IF "default_blend_mode" \in DOMAIN object
    THEN IF object["default_blend_mode"] # None
         THEN resolve_blend_mode(object["default_blend_mode"], st)
         ELSE st
    ELSE st

load_default_variant(object, st) ==
    IF ~st.raised /\ "default_variant" \in DOMAIN object
    THEN [st EXCEPT !.self.default_variant = object["default_variant"]]
    ELSE st

\* self.variants = [Variant().load(v, join(path, self.name)) for v in object["variants"]]
load_variants(object, path, st) ==
    IF ~st.raised /\ "variants" \in DOMAIN object
    THEN [st EXCEPT
             !.self.variants = [i \in 1..Len(object["variants"]) |-> Len(st.heap) + i],
             !.heap = @ \o [i \in 1..Len(object["variants"]) |->
                              variant_load(object["variants"][i],
                                           path_join(path, st.self.name))]]
    ELSE st

\* Pass.load: the Pass and the heap after the call.
load(self, h, object, path) ==
    load_variants(object, path,
        load_default_variant(object,
            load_blend_mode(object,
                load_fallback_pass(object,
                    load_supported_platforms(object,
                        load_name(object, [self |-> self, heap |-> h, raised |-> FALSE]))))))

LoadEffect(p, object, r) ==
    /\ passes' = [passes EXCEPT ![p] = r.self]
    /\ heap' = r.heap
    /\ Record(Call("load", p, object, IF r.raised THEN "ValueError" ELSE "ok"))
    /\ UNCHANGED <<files, disk>>

\* p.load(object, path)
Load(p, object, path) == LoadEffect(p, object, load(passes[p], heap, object, path))

(***************************************************************************)
(* Pass.store and the filesystem: the files with their content, the        *)
(* directories, and the log of the changes made, each with the number of   *)
(* the call that made it.                                                  *)
(***************************************************************************)
\* A path without its trailing '/'.
Norm(path) ==
    IF path # <<>> /\ path[Len(path)] = 47 THEN SubSeq(path, 1, Len(path) - 1) ELSE path

Exists(d, path) == Norm(path) \in d.dirs \/ Norm(path) \in DOMAIN d.files

Change(n, op, path) == [call |-> n, op |-> op, path |-> path]

\* open(path, "w") and the write: the file is created or replaced.
file_put(d, n, op, path, content) ==
    [d EXCEPT !.files = [q \in DOMAIN d.files \cup {path} |->
                            IF q = path THEN content ELSE d.files[q]],
              !.log = Append(@, Change(n, op, path))]

\* json.dump(tree, f, indent=4)
json_dump(object) == [json |-> object]

\* f"{self.name}.json"
descriptor_name(self) == self.name \o <<46, 106, 115, 111, 110>>

\* with open(os.path.join(path, f"{self.name}.json"), "w") as f: json.dump(...)
write_descriptor(self, h, d, path, n) ==
    file_put(d, n, "write", path_join(path, descriptor_name(self)),
             json_dump(serialize_properties(self, h)))

\* A mkdir that accepts a directory that is already there.
make_dir_exist_ok(d, dir, n) ==
    IF Exists(d, dir) THEN [disk |-> d, ret |-> "ok"]
    ELSE [disk |-> [d EXCEPT !.dirs = @ \cup {Norm(dir)},
                             !.log = Append(@, Change(n, "mkdir", Norm(dir)))],
          ret |-> "ok"]

\* os.mkdir(pass_dir)
make_dir(d, dir, n) ==
    IF Exists(d, dir) THEN [disk |-> d, ret |-> "FileExistsError"]
    ELSE [disk |-> [d EXCEPT !.dirs = @ \cup {Norm(dir)},
                             !.log = Append(@, Change(n, "mkdir", Norm(dir)))],
          ret |-> "ok"]

\* for shader in self.variants[i].shaders: the file written for each.
RECURSIVE write_variant_shaders(_, _, _, _, _)
write_variant_shaders(d, dir, n, i, shaders) ==
    IF shaders = <<>> THEN d
    ELSE write_variant_shaders(
             file_put(d, n, "write_shader",
                      path_join(dir, get_shader_file_name(i, shaders[1])),
                      shaders[1].bytes),
             dir, n, i, Tail(shaders))

\* for i in range(len(self.variants)): from index i on.
RECURSIVE write_pass_shaders(_, _, _, _, _, _)
write_pass_shaders(self, h, d, dir, n, i) ==
    IF i >= Len(self.variants) THEN d
    ELSE write_pass_shaders(self, h,
             write_variant_shaders(d, dir, n, i, h[self.variants[i + 1]].shaders),
             dir, n, i + 1)

\* The rest of store once os.mkdir has returned or raised.
store_shaders(self, h, made, dir, n) ==
    IF made.ret # "ok" THEN made
    ELSE [disk |-> write_pass_shaders(self, h, made.disk, dir, n, 0), ret |-> "ok"]

\* The rest of store once the descriptor is written.
store_blobs(self, h, d, dir, skip_shaders, n) ==
    IF skip_shaders THEN [disk |-> d, ret |-> "ok"]
    ELSE store_shaders(self, h, make_dir(d, dir, n), dir, n)

\* Pass.store, as call number n: the filesystem after it and its outcome.
store(self, h, d, path, skip_shaders, n) ==
    store_blobs(self, h, write_descriptor(self, h, d, path, n),
                path_join(path, self.name), skip_shaders, n)

StoreEffect(p, path, skip_shaders, r) ==
    /\ disk' = r.disk
    /\ Record(Call("store", p, [path |-> path, skip_shaders |-> skip_shaders], r.ret))
    /\ UNCHANGED <<passes, heap, files>>

\* p.store(path, skip_shaders)
Store(p, path, skip_shaders) ==
    StoreEffect(p, path, skip_shaders,
                store(passes[p], heap, disk, path, skip_shaders, Len(calls) + 1))

(***************************************************************************)
(* Pass: the semantic operations.                                          *)
(***************************************************************************)
\* The addresses in a variant list.
Ids(variants) == {variants[i] : i \in 1..Len(variants)}

\* Variant.merge_variant: the other Variant's shaders join this one's.
merge_variant(v, o) == [v EXCEPT !.shaders = @ \o o.shaders]

\* A comparison of the flags as they are written down, order included.
flags_equal_in_order(f, g) == f = g

\* v.flags == other_variant.flags
flags_equal(f, g) == DictEq(f, g)

\* next((v for v in self.variants if v.flags == flags), None); None is 0.
RECURSIVE matching_variant(_, _, _)
matching_variant(variants, h, flags) ==
    IF variants = <<>> THEN 0
    ELSE IF flags_equal(h[variants[1]].flags, flags) THEN variants[1]
    ELSE matching_variant(Tail(variants), h, flags)

\* The body of the loop with the other Variant put first in the list.
merge_one_in_front(st, o, m) ==
    IF m = 0
    THEN [st EXCEPT !.variants = <<o>> \o @]
    ELSE [st EXCEPT !.heap[m] = merge_variant(@, st.heap[o])]

\* The body of the loop for the other Variant at address o, m its match in
\* self.variants: the Variant object itself is appended, not a copy.
merge_one(st, o, m) ==
    IF m = 0
    THEN [st EXCEPT !.variants = Append(@, o)]
    ELSE [st EXCEPT !.heap[m] = merge_variant(@, st.heap[o])]

\* for other_variant in other.variants: over st, self.variants and the heap.
RECURSIVE merge_loop(_, _)
merge_loop(st, others) ==
    IF others = <<>> THEN st
    ELSE merge_loop(
             merge_one(st, others[1],
                       matching_variant(st.variants, st.heap, st.heap[others[1]].flags)),
             Tail(others))

\* Pass.merge_variants: self.variants and the heap after the call.
merge_variants(self, h, other) ==
    merge_loop([variants |-> self.variants, heap |-> h], other.variants)

MergeEffect(p, q, r) ==
    /\ passes' = [passes EXCEPT ![p].variants = r.variants]
    /\ heap' = r.heap
    /\ Record(Call("merge_variants", p, q, "ok"))
    /\ UNCHANGED <<files, disk>>

\* p.merge_variants(q)
MergeVariants(p, q) == MergeEffect(p, q, merge_variants(passes[p], heap, passes[q]))

\* dict(sorted(d.items()))
sorted_dict(d) == DictFromItems(SortedItems(d))

\* sort_variants without its loop over the variants: their flags stay as written.
sort_flags_skipped(h, variants) == h

\* for variant in self.variants: variant.flags = dict(sorted(variant.flags.items()))
sort_flags(h, variants) ==
    [i \in DOMAIN h |->
        IF i \in Ids(variants) THEN [h[i] EXCEPT !.flags = sorted_dict(@)] ELSE h[i]]

\* The key the variant list is sorted by: str(x.flags).
sort_key(v) == StrDict(v.flags)

RECURSIVE InsertVariant(_, _, _)
InsertVariant(x, s, h) ==
    IF s = <<>> THEN <<x>>
    ELSE IF StrLess(sort_key(h[x]), sort_key(h[s[1]])) THEN <<x>> \o s
    ELSE <<s[1]>> \o InsertVariant(x, Tail(s), h)

\* self.variants.sort(key=lambda x: str(x.flags)): a stable sort.
RECURSIVE SortedVariants(_, _)
SortedVariants(s, h) ==
    IF s = <<>> THEN <<>>
    ELSE InsertVariant(s[Len(s)], SortedVariants(SubSeq(s, 1, Len(s) - 1), h), h)

sort_variant_list(self, h) ==
    [self |-> [self EXCEPT !.variants = SortedVariants(@, h)], heap |-> h]

\* Pass.sort_variants: the Pass and the heap after the call.
sort_variants(self, h) ==
    sort_variant_list([self EXCEPT !.default_variant = sorted_dict(@)],
                      sort_flags(h, self.variants))

SortEffect(p, r) ==
    /\ passes' = [passes EXCEPT ![p] = r.self]
    /\ heap' = r.heap
    /\ Record(Call("sort_variants", p, <<>>, "ok"))
    /\ UNCHANGED <<files, disk>>

\* p.sort_variants()
SortVariants(p) == SortEffect(p, sort_variants(passes[p], heap))

\* Variant.label(material_name, pass_name, variant_index)
variant_label(v, material_name, pass_name, variant_index) ==
    [v EXCEPT !.label = <<material_name, pass_name, variant_index>>]

\* Pass.label: the heap after the call, from index i on.
RECURSIVE label(_, _, _, _)
label(self, h, material_name, i) ==
    IF i >= Len(self.variants) THEN h
    ELSE label(self,
               [h EXCEPT ![self.variants[i + 1]] =
                    variant_label(@, material_name, self.name, i)],
               material_name, i + 1)

\* p.label(material_name)
Label(p, material_name) ==
    /\ heap' = label(passes[p], heap, material_name, 0)
    /\ Record(Call("label", p, material_name, "ok"))
    /\ UNCHANGED <<passes, files, disk>>

\* The platforms among s, in order, that the shaders do not cover yet.
RECURSIVE new_shaders(_, _, _)
new_shaders(shaders, platforms, i) ==
    IF i > Len(PlatformNames) THEN <<>>
    ELSE (IF i \in platforms /\ \A j \in 1..Len(shaders) : shaders[j].platform # i
          THEN <<[platform |-> i, bytes |-> <<>>]>> ELSE <<>>)
         \o new_shaders(shaders, platforms, i + 1)

\* Variant.add_platforms: a shader for each platform it does not have yet.
variant_add_platforms(v, platforms) ==
    [v EXCEPT !.shaders = @ \o new_shaders(@, platforms, 1)]

\* Variant.remove_platforms: the shaders of these platforms go.
variant_remove_platforms(v, platforms) ==
    [v EXCEPT !.shaders = SelectSeq(@, LAMBDA s : s.platform \notin platforms)]

\* Pass.add_platforms: the heap after the call.
add_platforms(self, h, platforms) ==
    [i \in DOMAIN h |->
        IF i \in Ids(self.variants) THEN variant_add_platforms(h[i], platforms) ELSE h[i]]

\* Pass.remove_platforms: the heap after the call.
remove_platforms(self, h, platforms) ==
    [i \in DOMAIN h |->
        IF i \in Ids(self.variants) THEN variant_remove_platforms(h[i], platforms) ELSE h[i]]

\* p.add_platforms(platforms)
AddPlatforms(p, platforms) ==
    /\ heap' = add_platforms(passes[p], heap, platforms)
    /\ Record(Call("add_platforms", p, platforms, "ok"))
    /\ UNCHANGED <<passes, files, disk>>

\* p.remove_platforms(platforms)
RemovePlatforms(p, platforms) ==
    /\ heap' = remove_platforms(passes[p], heap, platforms)
    /\ Record(Call("remove_platforms", p, platforms, "ok"))
    /\ UNCHANGED <<passes, files, disk>>

\* definitions[key] = {value}: the value replaces what was collected.
add_definition_replacing(definitions, key, value) ==
    IF key \in DictKeys(definitions)
    THEN [i \in 1..Len(definitions) |->
             IF definitions[i][1] = key THEN <<key, {value}>> ELSE definitions[i]]
    ELSE Append(definitions, <<key, {value}>>)

\* if key not in definitions: definitions[key] = set()
\* definitions[key].add(value)
add_definition(definitions, key, value) ==
    IF key \in DictKeys(definitions)
    THEN [i \in 1..Len(definitions) |->
             IF definitions[i][1] = key
             THEN <<key, definitions[i][2] \cup {value}>>
             ELSE definitions[i]]
    ELSE Append(definitions, <<key, {value}>>)

\* for key, value in variant.flags.items()
RECURSIVE add_flag_definitions(_, _)
add_flag_definitions(definitions, flags) ==
    IF flags = <<>> THEN definitions
    ELSE add_flag_definitions(add_definition(definitions, flags[1][1], flags[1][2]),
                              Tail(flags))

\* for variant in self.variants
RECURSIVE add_variant_definitions(_, _, _)
add_variant_definitions(definitions, variants, h) ==
    IF variants = <<>> THEN definitions
    ELSE add_variant_definitions(add_flag_definitions(definitions, h[variants[1]].flags),
                                 Tail(variants), h)

\* {key: {value} for key, value in self.default_variant.items()}
default_definitions(self) ==
    [i \in 1..Len(self.default_variant) |->
        <<self.default_variant[i][1], {self.default_variant[i][2]}>>]

\* Pass.get_flag_definitions: the dict it returns, key -> set of values.
get_flag_definitions(self, h) ==
    add_variant_definitions(default_definitions(self), self.variants, h)

\* p.get_flag_definitions()
GetFlagDefinitions(p) ==
    /\ Record(Call("get_flag_definitions", p, <<>>, get_flag_definitions(passes[p], heap)))
    /\ UNCHANGED <<passes, heap, files, disk>>

(***************************************************************************)
(* Initial states: two Passes as earlier read or load calls left them, each *)
(* with Variant objects of its own.                                        *)
(***************************************************************************)
SeqsUpTo(S, n) == UNION {[1..k -> S] : k \in 0..n}

Shader(p, b) == [platform |-> p, bytes |-> b]

Variant(f, s) == [flags |-> f, shaders |-> s, label |-> <<>>]

Names == {<<112>>, <<112, 50>>}

Fallbacks == {<<>>, <<70>>}

SomePlatforms == {SupportedPlatforms(<<49, 48>>), SupportedPlatforms(<<48, 49>>)}

\* The fields of a Pass, with the Variants themselves in place of their addresses.
Contents(names, platforms, fallbacks, modes, dicts, variantLists) ==
    [name : names, supported_platforms : platforms, fallback_pass : fallbacks,
     default_blend_mode : modes, default_variant : dicts, variants : variantLists]

\* The two Passes with contents a and b, a's Variants first on the heap.
Populate(a, b) ==
    /\ heap = a.variants \o b.variants
    /\ passes = [p \in PassIds |->
                    IF p = "A"
                    THEN [a EXCEPT !.variants = [i \in 1..Len(a.variants) |-> i]]
                    ELSE [b EXCEPT !.variants =
                              [i \in 1..Len(b.variants) |-> Len(a.variants) + i]]]
    /\ start = [passes |-> passes, heap |-> heap]
    /\ pre = start
    /\ calls = <<>>

NoVariants == [name |-> <<>>, supported_platforms |-> SupportedPlatforms(<<>>),
               fallback_pass |-> <<>>, default_blend_mode |-> Unspecified,
               default_variant |-> <<>>, variants |-> <<>>]

(***************************************************************************)
(* SpecCodec: A is written to f1, B reads f1 from its start and is written *)
(* to f2.  B is either newly constructed or holds what an earlier read left.*)
(***************************************************************************)
CodecVariants ==
    {Variant(<<<<<<97>>, <<48>>>>>>, <<Shader(1, <<7>>)>>),
     Variant(<<<<<<98>>, <<49>>>>, <<<<97>>, <<48>>>>>>, <<>>)}

CodecContents ==
    Contents(Names, SomePlatforms, Fallbacks, BlendModes \cup {Unspecified}, AllDicts,
             SeqsUpTo(CodecVariants, MaxVariants))

CodecEarlier ==
    Contents({<<113>>}, SomePlatforms, {<<70>>}, BlendModes, {<<<<<<97>>, <<49>>>>>>},
             {<<Variant(<<>>, <<>>)>>})

InitCodec ==
    /\ \E a \in CodecContents : \E b \in {NoVariants} \cup CodecEarlier : Populate(a, b)
    /\ files = [f \in FileIds |-> NewFile]
    /\ disk = NewDisk

NextCodec ==
    \/ Len(calls) = 0 /\ Write("A", "f1")
    \/ Len(calls) = 1 /\ Seek("f1")
    \/ Len(calls) = 2 /\ Read("B", "f1")
    \/ Len(calls) = 3 /\ Write("B", "f2")

SpecCodec == InitCodec /\ [][NextCodec]_vars

\* The values of a Pass's fields, the Variants in place of their addresses.
Fields(p) == [passes[p] EXCEPT !.variants = [i \in 1..Len(passes[p].variants) |->
                                                heap[passes[p].variants[i]]]]

\* C1: the bytes A wrote to f1, read into a newly constructed B and written
\* again by B to f2, are the same bytes; the read consumes f1 to its end and
\* leaves B with A's fields.
C1_BinaryRoundTrip ==
    start.passes["B"] = NewPass =>
        /\ Len(calls) >= 3 =>
              /\ calls[3].ret = "ok"
              /\ files["f1"].pos = Len(files["f1"].data)
              /\ Fields("B") = Fields("A")
        /\ Len(calls) = 4 => files["f2"].data = files["f1"].data

C1_Witness ==
    /\ start.passes["B"] = NewPass
    /\ Len(calls) = 4
    /\ passes["A"].default_blend_mode = Unspecified
    /\ Len(passes["A"].default_variant) = 2
    /\ Len(passes["A"].variants) = 2
    /\ files["f2"].data = files["f1"].data
    /\ Len(files["f2"].data) > 20

\* C2: after B has read a record whose presence flag is false (A had no blend
\* mode when it wrote f1), B's blend mode is the unspecified sentinel and the
\* cursor stands at the end of the record, whatever B held before.
C2_SentinelAfterRead ==
    (Len(calls) >= 3 /\ passes["A"].default_blend_mode = Unspecified) =>
        /\ passes["B"].default_blend_mode = Unspecified
        /\ files["f1"].pos = Len(files["f1"].data)

(***************************************************************************)
(* SpecTree: each Pass loads trees: what the other Pass serializes to, whole,*)
(* or cut down to some of its keys, or with another blend-mode text.       *)
(***************************************************************************)
\* The number of load calls a client makes in SpecTree.
MaxLoads == 2

TreeVariants ==
    {Variant(<<<<<<97>>, <<48>>>>>>, <<Shader(1, <<7>>)>>),
     Variant(<<<<<<98>>, <<49>>>>, <<<<97>>, <<48>>>>>>, <<>>)}

TreeContents ==
    Contents({<<112>>}, SomePlatforms, {<<70>>}, BlendModes \cup {Unspecified},
             {<<>>, <<<<<<98>>, <<49>>>>, <<<<97>>, <<48>>>>>>},
             SeqsUpTo(TreeVariants, MaxVariants))

TreeEarlier ==
    Contents({<<113>>}, {SupportedPlatforms(<<48, 48>>)}, {<<>>}, {"BlendMode.Replace"},
             {<<<<<<97>>, <<49>>>>>>}, {<<Variant(<<>>, <<>>)>>})

InitTree ==
    /\ \E a \in TreeContents : \E b \in {NoVariants} \cup TreeEarlier : Populate(a, b)
    /\ files = [f \in FileIds |-> NewFile]
    /\ disk = NewDisk

Other(p) == IF p = "A" THEN "B" ELSE "A"

TreeKeySets == {{}, TreeKeys, {"default_blend_mode"}, TreeKeys \ {"variants", "name"}}

\* The trees a client hands to p.load.
TreeInputs(p) ==
    {Restrict(serialize_properties(passes[Other(p)], heap), K) : K \in TreeKeySets}
    \cup {[default_blend_mode |-> None], [default_blend_mode |-> "Additive"]}

NextTree ==
    \E p \in PassIds : \E object \in TreeInputs(p) :
        Len(calls) < MaxLoads /\ Load(p, object, Root)

SpecTree == InitTree /\ [][NextTree]_vars

LastCall == calls[Len(calls)]

\* The fields of p before the last call.
FieldsBefore(p) ==
    [pre.passes[p] EXCEPT !.variants = [i \in 1..Len(pre.passes[p].variants) |->
                                            pre.heap[pre.passes[p].variants[i]]]]

\* C3: load of the empty tree leaves every field of the Pass as it was: the
\* name, the supported platforms, the fallback pass, the blend mode, the
\* default variant, and the variant list with the Variants in it.
C3_LoadEmptyTree ==
    (calls # <<>> /\ LastCall.op = "load" /\ DOMAIN LastCall.arg = {}) =>
        /\ LastCall.ret = "ok"
        /\ passes[LastCall.self] = pre.passes[LastCall.self]
        /\ Fields(LastCall.self) = FieldsBefore(LastCall.self)

C3_Witness ==
    /\ calls # <<>> /\ LastCall.op = "load" /\ DOMAIN LastCall.arg = {}
    /\ passes[LastCall.self].default_blend_mode # Unspecified
    /\ Len(passes[LastCall.self].variants) = 2
    /\ passes[LastCall.self].default_variant # <<>>
    /\ passes[LastCall.self].name # <<>>

\* C4: a newly constructed Pass that loads the whole tree of another Pass has
\* that Pass's name, supported platforms, fallback pass, blend mode (the
\* sentinel for the empty text) and default variant, and as many Variants,
\* in the same order (by their flags).
C4_TreeRoundTrip ==
    (Len(calls) = 1 /\ LastCall.op = "load" /\ DOMAIN LastCall.arg = TreeKeys
        /\ pre.passes[LastCall.self] = NewPass) =>
        /\ LastCall.ret = "ok"
        /\ [Fields(LastCall.self) EXCEPT !.variants = <<>>]
             = [Fields(Other(LastCall.self)) EXCEPT !.variants = <<>>]
        /\ Len(passes[LastCall.self].variants) = Len(passes[Other(LastCall.self)].variants)
        /\ \A i \in 1..Len(passes[LastCall.self].variants) :
              Fields(LastCall.self).variants[i].flags
                 = Fields(Other(LastCall.self)).variants[i].flags

C4_Witness ==
    /\ Len(calls) = 1 /\ LastCall.op = "load" /\ DOMAIN LastCall.arg = TreeKeys
    /\ pre.passes[LastCall.self] = NewPass
    /\ passes[LastCall.self].default_blend_mode = "BlendMode.Replace"
    /\ Len(passes[LastCall.self].variants) = 2
    /\ Fields(LastCall.self).variants[1] # Fields(LastCall.self).variants[2]

C4_WitnessSentinel ==
    /\ Len(calls) = 1 /\ LastCall.op = "load" /\ DOMAIN LastCall.arg = TreeKeys
    /\ pre.passes[LastCall.self] = NewPass
    /\ LastCall.arg["default_blend_mode"] = ""
    /\ passes[LastCall.self].default_blend_mode = Unspecified

(***************************************************************************)
(* SpecStore: the two Passes are stored into the same directory, with and  *)
(* without their shaders.  B has A's name, or no name.                     *)
(***************************************************************************)
\* The number of store calls a client makes in SpecStore.
MaxStores == 2

StoreVariants ==
    {Variant(<<>>, <<>>),
     Variant(<<<<<<97>>, <<48>>>>>>, <<Shader(1, <<7>>)>>),
     Variant(<<<<<<97>>, <<49>>>>>>, <<Shader(1, <<8>>), Shader(2, <<9>>)>>)}

StoreContentsA ==
    Contents({<<112>>}, {SupportedPlatforms(<<49, 48>>)}, {<<>>}, {Unspecified},
             {<<>>}, SeqsUpTo(StoreVariants, MaxVariants))

StoreContentsB ==
    Contents({<<112>>, <<>>}, {SupportedPlatforms(<<49, 49>>)}, {<<70>>},
             {Unspecified, "BlendMode.Replace"}, {<<>>}, SeqsUpTo(StoreVariants, 1))

InitStore ==
    /\ \E a \in StoreContentsA : \E b \in StoreContentsB : Populate(a, b)
    /\ files = [f \in FileIds |-> NewFile]
    /\ disk = NewDisk

NextStore ==
    \E p \in PassIds : \E skip_shaders \in BOOLEAN :
        Len(calls) < MaxStores /\ Store(p, Root, skip_shaders)

SpecStore == InitStore /\ [][NextStore]_vars

\* The changes call n made to the filesystem, in order.
ChangesOf(n) == SelectSeq(disk.log, LAMBDA e : e.call = n)

DescriptorPath(p) == path_join(Root, descriptor_name(passes[p]))

PassDir(p) == Norm(path_join(Root, passes[p].name))

\* The directory of p was there when call n began.
DirBefore(p, n) ==
    \/ PassDir(p) = Root
    \/ \E k \in 1..Len(disk.log) :
          disk.log[k].call < n /\ disk.log[k].op = "mkdir" /\ disk.log[k].path = PassDir(p)

\* C8: the first change a store makes is the write of the descriptor file,
\* so the directory and the shader files come after it; with skip_shaders it
\* makes no other change; without skip_shaders, when the directory is
\* already there, it raises FileExistsError having written the descriptor
\* and nothing else, and the descriptor file holds the tree of that call.
C8_StoreOrderAndFailure ==
    \A n \in 1..Len(calls) :
        /\ ChangesOf(n) # <<>>
        /\ ChangesOf(n)[1] = Change(n, "write", DescriptorPath(calls[n].self))
        /\ calls[n].arg.skip_shaders => (Len(ChangesOf(n)) = 1 /\ calls[n].ret = "ok")
        /\ (~calls[n].arg.skip_shaders /\ DirBefore(calls[n].self, n)) =>
              /\ calls[n].ret = "FileExistsError"
              /\ Len(ChangesOf(n)) = 1
              /\ n = Len(calls) =>
                    disk.files[DescriptorPath(calls[n].self)]
                       = json_dump(serialize_properties(passes[calls[n].self], heap))
        /\ (~calls[n].arg.skip_shaders /\ ~DirBefore(calls[n].self, n)) =>
              /\ calls[n].ret = "ok"
              /\ Len(ChangesOf(n)) >= 2
              /\ ChangesOf(n)[2] = Change(n, "mkdir", PassDir(calls[n].self))
              /\ \A k \in 3..Len(ChangesOf(n)) : ChangesOf(n)[k].op = "write_shader"

\* A second store with shaders fails on the directory the first one made,
\* after replacing the descriptor the first one wrote for a different Pass.
C8_Witness ==
    /\ Len(calls) = 2
    /\ calls[1] = Call("store", "A", [path |-> Root, skip_shaders |-> FALSE], "ok")
    /\ calls[2] = Call("store", "B", [path |-> Root, skip_shaders |-> FALSE], "FileExistsError")
    /\ Len(ChangesOf(1)) >= 4
    /\ Len(ChangesOf(2)) = 1
    /\ disk.files[DescriptorPath("B")] = json_dump(serialize_properties(passes["B"], heap))
    /\ serialize_properties(passes["B"], heap) # serialize_properties(passes["A"], heap)

(***************************************************************************)
(* SpecMerge: merge_variants between two Passes, and of a Pass with itself, *)
(* on variant lists with equal, reordered and different flags.  A's        *)
(* Variants carry a shader of platform 1, B's of platform 2.               *)
(***************************************************************************)
\* The number of merge_variants calls a client makes in SpecMerge.
MaxMerges == 2

MergeFlags ==
    {<<<<<<97>>, <<48>>>>>>, <<<<<<97>>, <<49>>>>>>,
     <<<<<<97>>, <<48>>>>, <<<<98>>, <<49>>>>>>, <<<<<<98>>, <<49>>>>, <<<<97>>, <<48>>>>>>}

\* Variants with these flags, the i-th with the shader (platform, <<i>>).
MergeVariantList(flagList, platform) ==
    [i \in 1..Len(flagList) |-> Variant(flagList[i], <<Shader(platform, <<i>>)>>)]

MergeContentsA ==
    {[name |-> <<112>>, supported_platforms |-> SupportedPlatforms(<<49, 48>>),
      fallback_pass |-> <<>>, default_blend_mode |-> Unspecified,
      default_variant |-> <<<<<<97>>, <<48>>>>>>,
      variants |-> MergeVariantList(fl, 1)] : fl \in SeqsUpTo(MergeFlags, MaxVariants)}

MergeContentsB ==
    {[name |-> <<113>>, supported_platforms |-> SupportedPlatforms(<<48, 49>>),
      fallback_pass |-> <<70>>, default_blend_mode |-> "BlendMode.Replace",
      default_variant |-> <<<<<<98>>, <<49>>>>>>,
      variants |-> MergeVariantList(fl, 2)] : fl \in SeqsUpTo(MergeFlags, MaxVariants)}

InitMerge ==
    /\ \E a \in MergeContentsA : \E b \in MergeContentsB : Populate(a, b)
    /\ files = [f \in FileIds |-> NewFile]
    /\ disk = NewDisk

NextMerge ==
    \E p \in PassIds : \E q \in PassIds :
        Len(calls) < MaxMerges /\ MergeVariants(p, q)

SpecMerge == InitMerge /\ [][NextMerge]_vars

\* In the last call, self.merge_variants(other): the two variant lists
\* before it, and the flags of a Variant (merge_variants changes no flags).
SelfBefore == pre.passes[LastCall.self].variants

OtherBefore == pre.passes[LastCall.arg].variants

FlagsBefore(id) == DictItemSet(pre.heap[id].flags)

\* The k-th Variant of other finds no Variant of self with its flags: none
\* that was there before the call, none that the call has appended so far.
Unmatched(k) ==
    /\ \A i \in 1..Len(SelfBefore) : FlagsBefore(SelfBefore[i]) # FlagsBefore(OtherBefore[k])
    /\ \A j \in 1..(k - 1) : FlagsBefore(OtherBefore[j]) # FlagsBefore(OtherBefore[k])

\* The index in other of the i-th unmatched Variant.
KthUnmatched(i) ==
    CHOOSE k \in 1..Len(OtherBefore) :
        Unmatched(k) /\ Cardinality({j \in 1..k : Unmatched(j)}) = i

\* The first Variant with the flags of other's k-th Variant in self's list
\* as it stands when that Variant's turn comes.
TargetOf(k) ==
    IF \E i \in 1..Len(SelfBefore) : FlagsBefore(SelfBefore[i]) = FlagsBefore(OtherBefore[k])
    THEN SelfBefore[CHOOSE i \in 1..Len(SelfBefore) :
                       /\ FlagsBefore(SelfBefore[i]) = FlagsBefore(OtherBefore[k])
                       /\ \A j \in 1..(i - 1) :
                             FlagsBefore(SelfBefore[j]) # FlagsBefore(OtherBefore[k])]
    ELSE OtherBefore[CHOOSE j \in 1..k :
                        /\ FlagsBefore(OtherBefore[j]) = FlagsBefore(OtherBefore[k])
                        /\ \A l \in 1..(j - 1) :
                              FlagsBefore(OtherBefore[l]) # FlagsBefore(OtherBefore[k])]

\* The shaders of other's matched Variants with target t, in other's order.
RECURSIVE MergedInto(_, _)
MergedInto(t, k) ==
    IF k > Len(OtherBefore) THEN <<>>
    ELSE (IF ~Unmatched(k) /\ TargetOf(k) = t THEN pre.heap[OtherBefore[k]].shaders ELSE <<>>)
         \o MergedInto(t, k + 1)

IsMerge == calls # <<>> /\ LastCall.op = "merge_variants"

\* C5: after self.merge_variants(other), self's earlier Variants are where
\* they were; behind them stand exactly the Variants of other that found no
\* Variant of self with equal flags when their turn came, in other's order;
\* a Variant of other that found one is not appended, and (when the two
\* Passes shared no Variant before the call) its shaders have gone into the
\* first Variant with its flags; no flags change and no other field of self.
C5_MergeCorrectness ==
    IsMerge =>
        /\ SubSeq(passes[LastCall.self].variants, 1, Len(SelfBefore)) = SelfBefore
        /\ Len(passes[LastCall.self].variants)
              = Len(SelfBefore) + Cardinality({k \in 1..Len(OtherBefore) : Unmatched(k)})
        /\ \A i \in 1..(Len(passes[LastCall.self].variants) - Len(SelfBefore)) :
              passes[LastCall.self].variants[Len(SelfBefore) + i] = OtherBefore[KthUnmatched(i)]
        /\ passes[LastCall.self] =
              [pre.passes[LastCall.self] EXCEPT !.variants = passes[LastCall.self].variants]
        /\ DOMAIN heap = DOMAIN pre.heap
        /\ \A t \in DOMAIN heap :
              /\ heap[t].flags = pre.heap[t].flags
              /\ heap[t].label = pre.heap[t].label
              /\ Ids(SelfBefore) \cap Ids(OtherBefore) = {} =>
                    heap[t].shaders = pre.heap[t].shaders \o MergedInto(t, 1)

\* A merge that both appends and merges: other repeats flags that self lacks and
\* has flags that self has in another order.
C5_Witness ==
    /\ IsMerge
    /\ LastCall.self # LastCall.arg
    /\ Len(SelfBefore) = 2
    /\ Len(OtherBefore) = 2
    /\ Len(passes[LastCall.self].variants) = 3
    /\ \E t \in Ids(SelfBefore) :
          /\ Len(heap[t].shaders) = 2
          /\ \E k \in 1..2 : /\ TargetOf(k) = t
                             /\ pre.heap[OtherBefore[k]].flags # pre.heap[t].flags

\* Self's Variants have pairwise different flags.
UniqueFlags(variants, h) ==
    \A i, j \in 1..Len(variants) :
        i # j => DictItemSet(h[variants[i]].flags) # DictItemSet(h[variants[j]].flags)

\* C10: if self's Variants had pairwise different flags before
\* self.merge_variants(other), they have after it, and self has as many more
\* Variants as other had different flags that self did not have.
C10_MergeKeepsFlagsUnique ==
    (IsMerge /\ UniqueFlags(SelfBefore, pre.heap)) =>
        /\ UniqueFlags(passes[LastCall.self].variants, heap)
        /\ Len(passes[LastCall.self].variants)
              = Len(SelfBefore)
                + Cardinality({FlagsBefore(OtherBefore[k]) : k \in 1..Len(OtherBefore)}
                              \ {FlagsBefore(SelfBefore[i]) : i \in 1..Len(SelfBefore)})

\* other has the same new flags twice: one Variant is appended, the second
\* goes into it.
C10_Witness ==
    /\ IsMerge
    /\ LastCall.self # LastCall.arg
    /\ UniqueFlags(SelfBefore, pre.heap)
    /\ Len(SelfBefore) = 1
    /\ Len(OtherBefore) = 2
    /\ FlagsBefore(OtherBefore[1]) = FlagsBefore(OtherBefore[2])
    /\ FlagsBefore(OtherBefore[1]) # FlagsBefore(SelfBefore[1])
    /\ Len(passes[LastCall.self].variants) = 2
    /\ Len(heap[OtherBefore[1]].shaders) = 2

(***************************************************************************)
(* SpecSem: the mutating calls and get_flag_definitions, in any order, on  *)
(* two Passes that share no Variant to begin with.                         *)
(***************************************************************************)
SemVariants ==
    {Variant(<<<<<<97>>, <<49>>>>, <<<<98>>, <<49>>>>>>, <<Shader(1, <<7>>)>>),
     Variant(<<<<<<97>>, <<48>>>>>>, <<Shader(2, <<8>>)>>)}

SemContentsA ==
    Contents({<<112>>}, {SupportedPlatforms(<<49, 48>>)}, {<<>>}, {Unspecified},
             {<<>>, <<<<<<97>>, <<48>>>>>>}, SeqsUpTo(SemVariants, MaxVariants))

SemContentsB ==
    Contents({<<113>>}, {SupportedPlatforms(<<48, 49>>)}, {<<70>>}, {"BlendMode.Replace"},
             {<<<<<<98>>, <<48>>>>>>},
             {<<Variant(<<<<<<97>>, <<48>>>>>>, <<Shader(1, <<9>>)>>)>>,
              <<Variant(<<<<<<98>>, <<48>>>>>>, <<Shader(1, <<5>>)>>),
                Variant(<<<<<<98>>, <<48>>>>>>, <<Shader(2, <<6>>)>>)>>,
              <<Variant(<<<<<<98>>, <<49>>>>, <<<<97>>, <<49>>>>>>, <<>>)>>})

InitSem ==
    /\ \E a \in SemContentsA : \E b \in SemContentsB : Populate(a, b)
    /\ files = [f \in FileIds |-> NewFile]
    /\ disk = NewDisk

Material == <<109>>

MoreCalls == Len(calls) < MaxCalls

NextSem ==
    \/ \E p \in PassIds : \E q \in PassIds : MoreCalls /\ MergeVariants(p, q)
    \/ \E p \in PassIds : MoreCalls /\ SortVariants(p)
    \/ \E p \in PassIds : MoreCalls /\ Label(p, Material)
    \/ \E p \in PassIds : MoreCalls /\ AddPlatforms(p, {2})
    \/ \E p \in PassIds : MoreCalls /\ RemovePlatforms(p, {1})
    \/ \E p \in PassIds : MoreCalls /\ GetFlagDefinitions(p)

SpecSem == InitSem /\ [][NextSem]_vars

\* Every (key, value) in the default variant of p and in the flags of its Variants.
AllFlagItems(p) ==
    DictItemSet(passes[p].default_variant)
    \cup UNION {DictItemSet(heap[id].flags) : id \in Ids(passes[p].variants)}

IsGetFlagDefinitions == calls # <<>> /\ LastCall.op = "get_flag_definitions"

\* C7: get_flag_definitions returns one entry for each key of the default
\* variant and of the Variants' flags and for no other key, with exactly the
\* values the key has there, and changes neither the Pass nor its Variants.
C7_FlagDefinitions ==
    IsGetFlagDefinitions =>
        /\ DictKeys(LastCall.ret) = {it[1] : it \in AllFlagItems(LastCall.self)}
        /\ Cardinality(DictKeys(LastCall.ret)) = Len(LastCall.ret)
        /\ \A i \in 1..Len(LastCall.ret) :
              LastCall.ret[i][2]
                 = {it[2] : it \in {x \in AllFlagItems(LastCall.self) :
                                       x[1] = LastCall.ret[i][1]}}
        /\ passes = pre.passes
        /\ heap = pre.heap

\* default_variant {a: 0} and a Variant with flags {a: 1, b: 1}.
C7_Witness ==
    /\ IsGetFlagDefinitions
    /\ passes[LastCall.self].default_variant = <<<<<<97>>, <<48>>>>>>
    /\ LastCall.ret = << <<<<97>>, {<<48>>, <<49>>}>>, <<<<98>>, {<<49>>}>> >>

Mutators == {"merge_variants", "sort_variants", "label", "add_platforms", "remove_platforms"}

\* C9: no Variant is in the variant lists of both Passes, and a mutating call
\* on one Pass changes no Variant that the other Pass had.
C9_ExclusiveOwnership ==
    /\ Ids(passes["A"].variants) \cap Ids(passes["B"].variants) = {}
    /\ (calls # <<>> /\ LastCall.op \in Mutators) =>
          \A id \in Ids(pre.passes[Other(LastCall.self)].variants) : heap[id] = pre.heap[id]

(***************************************************************************)
(* SpecSort: B has A's content in another order: the items of the default  *)
(* variant, the items of each Variant's flags, the Variants in the list.   *)
(* Both are sorted, then written, A to f1 and B to f2.                     *)
(***************************************************************************)
SortVariantsPool ==
    {Variant(<<<<<<97>>, <<48>>>>>>, <<Shader(1, <<7>>)>>),
     Variant(<<<<<<97>>, <<48>>>>>>, <<Shader(2, <<8>>)>>),
     Variant(<<<<<<98>>, <<49>>>>, <<<<97>>, <<48>>>>>>, <<Shader(1, <<9>>)>>),
     Variant(<<<<<<97>>, <<49>>>>>>, <<>>)}

SortContents ==
    Contents({<<112>>}, {SupportedPlatforms(<<49, 48>>)}, {<<70>>}, {"BlendMode.Replace"},
             {<<>>, <<<<<<98>>, <<49>>>>, <<<<97>>, <<48>>>>>>},
             SeqsUpTo(SortVariantsPool, MaxVariants))

\* The orders a sequence of different things can be in.
Orders(s) == {t \in [1..Len(s) -> {s[i] : i \in 1..Len(s)}] :
                 \A i \in 1..Len(s) : \E j \in 1..Len(s) : t[j] = s[i]}

\* A Variant with its flags in any order.
Reflagged(v) == {[v EXCEPT !.flags = f] : f \in Orders(v.flags)}

\* A variant list in any order, each Variant with its flags in any order.
Relisted(vs) ==
    {t \in [1..Len(vs) -> UNION {Reflagged(vs[i]) : i \in 1..Len(vs)}] :
        \E o \in Permutations(1..Len(vs)) :
            \A i \in 1..Len(vs) : t[i] \in Reflagged(vs[o[i]])}

Reordered(a) ==
    {[a EXCEPT !.default_variant = d, !.variants = t] :
        d \in Orders(a.default_variant), t \in Relisted(a.variants)}

InitSort ==
    /\ \E a \in SortContents : \E b \in Reordered(a) : Populate(a, b)
    /\ files = [f \in FileIds |-> NewFile]
    /\ disk = NewDisk

Called(op, p) == \E i \in 1..Len(calls) : calls[i].op = op /\ calls[i].self = p

FileOf(p) == IF p = "A" THEN "f1" ELSE "f2"

BothSorted == Called("sort_variants", "A") /\ Called("sort_variants", "B")

NextSort ==
    \E p \in PassIds :
        \/ ~Called("sort_variants", p) /\ SortVariants(p)
        \/ BothSorted /\ ~Called("write", p) /\ Write(p, FileOf(p))

SpecSort == InitSort /\ [][NextSort]_vars

\* Once both Passes are sorted they are the same, field by field and Variant
\* by Variant, they serialize to the same tree, and they write the same bytes.
SortedAlike ==
    /\ Fields("A") = Fields("B")
    /\ serialize_properties(passes["A"], heap) = serialize_properties(passes["B"], heap)
    /\ (Called("write", "A") /\ Called("write", "B")) =>
          files["f1"].data = files["f2"].data

\* C6 as claimed: two Passes with the same content in different orders are
\* identical once sort_variants has been called on both.
C6_SortCanonical == BothSorted => SortedAlike

\* C6 as amended: the same, for Passes whose Variants have pairwise
\* different flags.
C6_SortCanonicalUniqueFlags ==
    (BothSorted /\ UniqueFlags(start.passes["A"].variants, start.heap)) => SortedAlike

\* B started with its two Variants, its default variant and a Variant's flags
\* in the other order, and both Passes are sorted and written.
C6_Witness ==
    /\ BothSorted
    /\ Called("write", "A") /\ Called("write", "B")
    /\ UniqueFlags(start.passes["A"].variants, start.heap)
    /\ Len(passes["A"].variants) = 2
    /\ start.heap[start.passes["A"].variants[1]].flags
          # start.heap[start.passes["B"].variants[2]].flags
    /\ DictItemSet(start.heap[start.passes["A"].variants[1]].flags)
          = DictItemSet(start.heap[start.passes["B"].variants[2]].flags)
    /\ start.passes["A"].default_variant # start.passes["B"].default_variant
    /\ files["f1"].data = files["f2"].data
    /\ passes["B"].variants # start.passes["B"].variants

====
